---- MODULE Spec2Model ----
(***************************************************************************)
(* A model of melior's operation builder (ir/operation/builder.rs), its    *)
(* utility functions (utility.rs) and its transform options                *)
(* (dialect/transform.rs).                                                 *)
(*                                                                         *)
(* Each part has its own specification over its own variables:             *)
(*   SpecBuilder   one OperationBuilder from new to build                  *)
(*   SpecOwnership the regions of one OperationBuilder and their owners    *)
(*   FairSpecOnce  threads calling register_all_passes                     *)
(*   SpecParse     parse_pass_pipeline and its diagnostic callback         *)
(*   SpecOptions   TransformOptions records                                *)
(***************************************************************************)
EXTENDS Integers, Sequences, FiniteSets, TLC

(***************************************************************************)
(* Bounds of the model.                                                    *)
(***************************************************************************)
\* the size of the calls made on one accumulator: two for each call plus one
\* for each element (type, value, region, block, binding) it adds
MaxLog == 6
\* operand segments in one add_operands_with_segment_sizes call
MaxSegs == 3

(***************************************************************************)
(* The values the caller can pass.                                         *)
(***************************************************************************)
Names == {"foo", "arith.addi"}
\* Context::set_allow_unregistered_dialects: what a context can be set to
Contexts == {[allow_unregistered_dialects |-> b] : b \in BOOLEAN}
\* Location::unknown(&context)
Locations == {[kind |-> "unknown", context |-> c] : c \in Contexts}
Types == {"i1", "index"}
Values == {"a", "b"}
Regions == {"r1", "r2"}
Blocks == {"b1", "b2"}
Identifiers == {"foo", "operandSegmentSizes"}

Range(s) == {s[i] : i \in 1..Len(s)}

\* sequences over S of length at most n
SeqsUpTo(S, n) == UNION {[1..k -> S] : k \in 0..n}

\* sequences over S without repetition, of length at most n
DistinctSeqsUpTo(S, n) == {s \in SeqsUpTo(S, n) : Cardinality(Range(s)) = Len(s)}

RECURSIVE SumSeq(_)
SumSeq(s) == IF s = <<>> THEN 0 ELSE Head(s) + SumSeq(Tail(s))

RECURSIVE Flatten(_)
Flatten(ss) == IF ss = <<>> THEN <<>> ELSE Head(ss) \o Flatten(Tail(ss))

(***************************************************************************)
(* The operandSegmentSizes attribute: a dense array of 32-bit integers,    *)
(* stored as four little-endian bytes per element.                         *)
(***************************************************************************)
I32Max == 2147483647

\* `len as i32`: the length wrapped into the signed 32-bit range
AsI32(n) == IF n <= I32Max THEN n ELSE n - I32Max - I32Max - 2

I32Bytes(v) ==
  << v % 256, (v \div 256) % 256, (v \div 65536) % 256, (v \div 16777216) % 256 >>

I32OfBytes(b) ==
  b[1] + 256 * b[2] + 65536 * b[3]
    + 16777216 * (IF b[4] >= 128 THEN b[4] - 256 ELSE b[4])

RECURSIVE EncodeI32s(_)
EncodeI32s(vs) ==
  IF vs = <<>> THEN <<>> ELSE I32Bytes(Head(vs)) \o EncodeI32s(Tail(vs))

\* DenseI32ArrayAttribute::new(context, values)
DenseI32ArrayAttribute(vs) ==
  [kind |-> "dense_i32_array", size |-> Len(vs), bytes |-> EncodeI32s(vs)]

\* the elements of a dense i32 array attribute, read back
DenseI32ArrayElements(attr) ==
  [i \in 1..attr.size |-> I32OfBytes(SubSeq(attr.bytes, 4 * i - 3, 4 * i))]

UnitAttribute == [kind |-> "unit"]

AttributeValues == {UnitAttribute}

\* mlirNamedAttributeGet(identifier, attribute)
mlirNamedAttributeGet(identifier, attribute) ==
  [name |-> identifier, attribute |-> attribute]

NamedAttributes == {<<i, a>> : i \in Identifiers, a \in AttributeValues}

(***************************************************************************)
(* State.                                                                  *)
(***************************************************************************)
VARIABLES
  \* OperationBuilder ------------------------------------------------------
  raw,            \* OperationBuilder.raw, the MlirOperationState
  builderStatus,  \* "none": not created; "live"; "consumed": moved into build;
                  \* "dropped": dropped without build
  calls,          \* the calls made on the accumulator, in order
  buildResult,    \* what build returned: "none" (not called), "ok", "err"
  operation,      \* the Operation build returned
  opAlive,        \* the caller still holds that Operation
  opsBuilt,       \* Operations produced from the accumulator
  callerRegions,  \* the Region handles the caller holds
  released,       \* how often each region was destroyed
  callerBlocks,   \* the Blocks their owner still holds
  releasedBlocks, \* how often each block was destroyed
  \* register_all_passes ---------------------------------------------------
  onceState,      \* ONCE: "INCOMPLETE", "RUNNING" or "COMPLETE"
  pc,             \* where each thread is in register_all_passes
  callsMade,      \* the calls of register_all_passes each thread has made
  regStarted,     \* executions of mlirRegisterAllPasses begun
  regDone,        \* executions of mlirRegisterAllPasses completed
  \* parse_pass_pipeline ---------------------------------------------------
  parsePc,        \* "idle", "parsing" (inside mlirParsePassPipeline), "returned"
  error_message,  \* the local Option<String> the callback writes to
  delivered,      \* the chunks the callback received in this call, in order
  parseSuccess,   \* the LogicalResult of mlirParsePassPipeline
  parseReturn,    \* what parse_pass_pipeline returned
  \* TransformOptions ------------------------------------------------------
  options,        \* the underlying record of each TransformOptions value
  optCall,        \* the last call on a TransformOptions value
  optPrev,        \* the call before it
  \* apply_named_sequence, merge_symbols_into_from_clone -------------------
  modules,        \* the top-level symbols each module operation defines
  mutated,        \* the modules a transform sequence has changed in place
  transformCall,  \* the last call of one of the two functions
  \* print_callback, print_string_callback ---------------------------------
  printPc,        \* "idle" or "printing" (inside the engine's print function)
  printKind,      \* the callback the engine was given
  printWriter,    \* the text written through `data` since the print began
  printResult,    \* the result in `data`: "Ok" or "Err"
  printChunks     \* the chunks the callback received, each with whether the
                  \* formatter's sink takes a write of it

builderVars ==
  << raw, builderStatus, calls, buildResult, operation, opAlive, opsBuilt,
     callerRegions, released >>

blockVars == << callerBlocks, releasedBlocks >>

onceVars == << onceState, pc, callsMade, regStarted, regDone >>

parseVars == << parsePc, error_message, delivered, parseSuccess, parseReturn >>

optionsVars == << options, optCall, optPrev >>

transformVars == << modules, mutated, transformCall >>

printVars == << printPc, printKind, printWriter, printResult, printChunks >>

vars ==
  << builderVars, blockVars, onceVars, parseVars, optionsVars, transformVars,
     printVars >>

NoState == [kind |-> "none"]
NoOperation == [kind |-> "none"]

(***************************************************************************)
(* OperationBuilder                                                        *)
(***************************************************************************)
\* faulty variant: the accumulator is seeded with result type inference enabled
mlirOperationStateGetInferring(name, location) ==
  [ kind |-> "state", name |-> name, location |-> location,
    results |-> <<>>, operands |-> <<>>, regions |-> <<>>,
    successors |-> <<>>, attributes |-> <<>>,
    enableResultTypeInference |-> TRUE ]

\* mlirOperationStateGet(name, location)
mlirOperationStateGet(name, location) ==
  [ kind |-> "state", name |-> name, location |-> location,
    results |-> <<>>, operands |-> <<>>, regions |-> <<>>,
    successors |-> <<>>, attributes |-> <<>>,
    enableResultTypeInference |-> FALSE ]

mlirOperationStateAddResults(state, results) ==
  [state EXCEPT !.results = @ \o results]

\* faulty variant: the operands replace the pending ones
ReplaceOperands(state, operands) ==
  [state EXCEPT !.operands = operands]

mlirOperationStateAddOperands(state, operands) ==
  [state EXCEPT !.operands = @ \o operands]

mlirOperationStateAddOwnedRegions(state, regions) ==
  [state EXCEPT !.regions = @ \o regions]

mlirOperationStateAddSuccessors(state, successors) ==
  [state EXCEPT !.successors = @ \o successors]

\* faulty variant: a binding replaces the pending bindings of its name
mlirOperationStateSetAttributes(state, attributes) ==
  [state EXCEPT !.attributes =
     SelectSeq(@, LAMBDA b : \A k \in DOMAIN attributes : attributes[k].name # b.name)
       \o attributes]

mlirOperationStateAddAttributes(state, attributes) ==
  [state EXCEPT !.attributes = @ \o attributes]

\* faulty variant: enabling inference discards the result types given so far
mlirOperationStateInferInsteadOfResults(state) ==
  [state EXCEPT !.enableResultTypeInference = TRUE, !.results = <<>>]

mlirOperationStateEnableResultTypeInference(state) ==
  [state EXCEPT !.enableResultTypeInference = TRUE]

\* the elements the caller put into an accumulator (the attribute that
\* add_operands_with_segment_sizes adds itself is not counted)
Elems(state) ==
  Len(state.results) + Len(state.operands) + Len(state.regions)
    + Len(state.successors)
    + Cardinality({i \in DOMAIN state.attributes :
                     state.attributes[i].attribute.kind = "unit"})

\* a builder method can be called: `self` is live, and the model's bounds
CanCall(n) ==
  /\ builderStatus = "live"
  /\ 2 * (Len(calls) + 1) + Elems(raw) + n <= MaxLog

Logged(op, arg) == Append(calls, [op |-> op, arg |-> arg])

new(name, location) ==
  /\ builderStatus = "none"
  /\ raw' = mlirOperationStateGet(name, location)
  /\ builderStatus' = "live"
  /\ UNCHANGED << calls, buildResult, operation, opAlive, opsBuilt,
                  callerRegions, released >>
  /\ UNCHANGED blockVars

add_results(results) ==
  /\ CanCall(Len(results))
  /\ raw' = mlirOperationStateAddResults(raw, results)
  /\ calls' = Logged("add_results", results)
  /\ UNCHANGED << builderStatus, buildResult, operation, opAlive, opsBuilt,
                  callerRegions, released >>
  /\ UNCHANGED blockVars

add_operands(operands) ==
  /\ CanCall(Len(operands))
  /\ raw' = mlirOperationStateAddOperands(raw, operands)
  /\ calls' = Logged("add_operands", operands)
  /\ UNCHANGED << builderStatus, buildResult, operation, opAlive, opsBuilt,
                  callerRegions, released >>
  /\ UNCHANGED blockVars

\* segments.iter().flat_map(|s| s.iter().copied()).collect()
AllOperands(segments) == Flatten(segments)

\* faulty variant: empty segments get no entry
SegmentSizesNonEmpty(segments) ==
  LET RECURSIVE Sizes(_)
      Sizes(ss) ==
        IF ss = <<>> THEN <<>>
        ELSE (IF Head(ss) = <<>> THEN <<>> ELSE << AsI32(Len(Head(ss))) >>)
               \o Sizes(Tail(ss))
  IN Sizes(segments)

\* segments.iter().map(|s| s.len() as i32).collect()
SegmentSizes(segments) == [i \in 1..Len(segments) |-> AsI32(Len(segments[i]))]

\* the state after the operands of all segments were added
WithSegmentOperands(state, segments) ==
  IF AllOperands(segments) # <<>>
    THEN mlirOperationStateAddOperands(state, AllOperands(segments))
    ELSE state

\* the state after the operandSegmentSizes attribute was added
WithSegmentSizes(state, segments) ==
  mlirOperationStateAddAttributes(state,
    << mlirNamedAttributeGet("operandSegmentSizes",
         DenseI32ArrayAttribute(SegmentSizes(segments))) >>)

add_operands_with_segment_sizes(segments) ==
  /\ CanCall(Len(AllOperands(segments)))
  /\ raw' = WithSegmentSizes(WithSegmentOperands(raw, segments), segments)
  /\ calls' = Logged("add_operands_with_segment_sizes", segments)
  /\ UNCHANGED << builderStatus, buildResult, operation, opAlive, opsBuilt,
                  callerRegions, released >>
  /\ UNCHANGED blockVars

\* Region's destructor run on every region of rs
DropRegions(rs, rel) ==
  [r \in Regions |-> IF r \in Range(rs) THEN rel[r] + 1 ELSE rel[r]]

\* faulty variant: `regions` is dropped at the end of the call
forgetMissing(regions, rel) == DropRegions(regions, rel)

\* the destructors of `regions` after forget(regions): none runs
forget(regions, rel) == rel

\* faulty variant: the Vec drops its regions at the end of the call
VecDropped(regions, rel) == DropRegions(regions, rel)

\* the destructors of a Vec<ManuallyDrop<Region>> going out of scope: none runs
ManuallyDrop(regions, rel) == rel

\* `regions` is moved into the call: the caller's handles are gone
add_regions(regions) ==
  /\ CanCall(Len(regions))
  /\ Range(regions) \subseteq callerRegions
  /\ raw' = mlirOperationStateAddOwnedRegions(raw, regions)
  /\ callerRegions' = callerRegions \ Range(regions)
  /\ released' = forget(regions, released)
  /\ calls' = Logged("add_regions", regions)
  /\ UNCHANGED << builderStatus, buildResult, operation, opAlive, opsBuilt >>
  /\ UNCHANGED blockVars

add_regions_vec(regions) ==
  /\ CanCall(Len(regions))
  /\ Range(regions) \subseteq callerRegions
  /\ raw' = mlirOperationStateAddOwnedRegions(raw, regions)
  /\ callerRegions' = callerRegions \ Range(regions)
  /\ released' = ManuallyDrop(regions, released)
  /\ calls' = Logged("add_regions_vec", regions)
  /\ UNCHANGED << builderStatus, buildResult, operation, opAlive, opsBuilt >>
  /\ UNCHANGED blockVars

\* for block in successors { mlirOperationStateAddSuccessors(raw, 1, [block]) }
RECURSIVE AddSuccessorsEach(_, _)
AddSuccessorsEach(state, successors) ==
  IF successors = <<>> THEN state
  ELSE AddSuccessorsEach(
         mlirOperationStateAddSuccessors(state, << Head(successors) >>),
         Tail(successors))

\* faulty variant: the builder takes the blocks over from their owner
add_successors_owned(successors) ==
  /\ CanCall(Len(successors))
  /\ Range(successors) \subseteq callerBlocks
  /\ raw' = AddSuccessorsEach(raw, successors)
  /\ calls' = Logged("add_successors", successors)
  /\ callerBlocks' = callerBlocks \ Range(successors)
  /\ UNCHANGED << builderStatus, buildResult, operation, opAlive, opsBuilt,
                  callerRegions, released, releasedBlocks >>

\* successors: &[&Block]: references to blocks that exist, borrowed for the call
add_successors(successors) ==
  /\ CanCall(Len(successors))
  /\ Range(successors) \subseteq callerBlocks
  /\ raw' = AddSuccessorsEach(raw, successors)
  /\ calls' = Logged("add_successors", successors)
  /\ UNCHANGED << builderStatus, buildResult, operation, opAlive, opsBuilt,
                  callerRegions, released >>
  /\ UNCHANGED blockVars

\* for (identifier, attribute) in attributes { mlirOperationStateAddAttributes(..) }
RECURSIVE AddAttributesEach(_, _)
AddAttributesEach(state, attributes) ==
  IF attributes = <<>> THEN state
  ELSE AddAttributesEach(
         mlirOperationStateAddAttributes(state,
           << mlirNamedAttributeGet(Head(attributes)[1], Head(attributes)[2]) >>),
         Tail(attributes))

add_attributes(attributes) ==
  /\ CanCall(Len(attributes))
  /\ raw' = AddAttributesEach(raw, attributes)
  /\ calls' = Logged("add_attributes", attributes)
  /\ UNCHANGED << builderStatus, buildResult, operation, opAlive, opsBuilt,
                  callerRegions, released >>
  /\ UNCHANGED blockVars

enable_result_type_inference ==
  /\ CanCall(0)
  /\ raw' = mlirOperationStateEnableResultTypeInference(raw)
  /\ calls' = Logged("enable_result_type_inference", <<>>)
  /\ UNCHANGED << builderStatus, buildResult, operation, opAlive, opsBuilt,
                  callerRegions, released >>
  /\ UNCHANGED blockVars

\* the operation names with a registered result type inference procedure
HasInference(name) == name = "arith.addi"

\* faulty variant: the engine makes an operation of a name without an inference
\* procedure
CreateOutcomesGuessed(state) == {TRUE, FALSE}

\* the operation names a dialect of the context registers
RegisteredOperation(name) == name = "arith.addi"

\* the context admits an operation of this name
Permitted(state) ==
  RegisteredOperation(state.name) \/ state.location.context.allow_unregistered_dialects

\* mlirOperationCreate: whether it can return an operation (TRUE) or null
\* (FALSE); what it does with a name the context does not admit is the engine's
CreateOutcomes(state) ==
  IF state.enableResultTypeInference
    THEN (IF HasInference(state.name) THEN {TRUE, FALSE} ELSE {FALSE})
    ELSE (IF Permitted(state) THEN {TRUE} ELSE {TRUE, FALSE})

\* the result types the inference procedure can supply
InferredResults(state) ==
  IF state.enableResultTypeInference THEN {<< t >> : t \in Types} ELSE {<<>>}

\* the first binding of each name
RECURSIVE KeepFirst(_)
KeepFirst(attributes) ==
  IF attributes = <<>> THEN <<>>
  ELSE LET front == KeepFirst(SubSeq(attributes, 1, Len(attributes) - 1))
           last == attributes[Len(attributes)]
       IN IF \E k \in DOMAIN front : front[k].name = last.name
            THEN front ELSE Append(front, last)

\* faulty variant: the engine makes a dictionary of the first binding of each name
CreatedOperationUnique(state, inferred) ==
  [ kind |-> "operation", name |-> state.name, location |-> state.location,
    results |-> state.results \o inferred, operands |-> state.operands,
    regions |-> state.regions, successors |-> state.successors,
    attributes |-> KeepFirst(state.attributes) ]

\* the operation mlirOperationCreate makes of the state
CreatedOperation(state, inferred) ==
  [ kind |-> "operation", name |-> state.name, location |-> state.location,
    results |-> state.results \o inferred, operands |-> state.operands,
    regions |-> state.regions, successors |-> state.successors,
    attributes |-> state.attributes ]

\* faulty variant: a failed build leaves the accumulator usable
AfterBuildRetry(ok) == IF ok THEN "consumed" ELSE "live"

\* `self` after build(mut self)
AfterBuild(ok) == "consumed"

\* Operation::from_option_raw(..).ok_or(Error::OperationBuild)
BuildReturn(ok) == IF ok THEN "ok" ELSE "err"

\* mlirOperationCreate takes the regions over: they go to the operation, or are
\* destroyed with the engine's state when it returns null
build(ok, inferred) ==
  /\ builderStatus = "live"
  /\ ok \in CreateOutcomes(raw)
  /\ inferred \in InferredResults(raw)
  /\ builderStatus' = AfterBuild(ok)
  /\ buildResult' = BuildReturn(ok)
  /\ IF ok
       THEN /\ operation' = CreatedOperation(raw, inferred)
            /\ opAlive' = TRUE
            /\ opsBuilt' = opsBuilt + 1
            /\ released' = released
       ELSE /\ released' = DropRegions(raw.regions, released)
            /\ UNCHANGED << operation, opAlive, opsBuilt >>
  /\ UNCHANGED << raw, calls, callerRegions >>
  /\ UNCHANGED blockVars

\* the builder goes out of scope without build: OperationBuilder has no
\* destructor, so what it holds is never released
DropBuilder ==
  /\ builderStatus = "live"
  /\ builderStatus' = "dropped"
  /\ UNCHANGED << raw, calls, buildResult, operation, opAlive, opsBuilt,
                  callerRegions, released >>
  /\ UNCHANGED blockVars

\* a Region the caller still holds goes out of scope
DropRegion(r) ==
  /\ r \in callerRegions
  /\ callerRegions' = callerRegions \ {r}
  /\ released' = DropRegions(<< r >>, released)
  /\ UNCHANGED << raw, builderStatus, calls, buildResult, operation, opAlive,
                  opsBuilt >>
  /\ UNCHANGED blockVars

\* the built Operation goes out of scope: its regions are destroyed with it
DropOperation ==
  /\ opAlive
  /\ opAlive' = FALSE
  /\ released' = DropRegions(operation.regions, released)
  /\ UNCHANGED << raw, builderStatus, calls, buildResult, operation, opsBuilt,
                  callerRegions >>
  /\ UNCHANGED blockVars

\* a Block goes out of its owner's scope: nothing ties its lifetime to the
\* builder or to the Operation that refers to it
DropBlock(b) ==
  /\ b \in callerBlocks
  /\ callerBlocks' = callerBlocks \ {b}
  /\ releasedBlocks' = [releasedBlocks EXCEPT ![b] = @ + 1]
  /\ UNCHANGED builderVars

\* the elements the bounds still allow the next call to add; -1: no call allowed
Room ==
  IF builderStatus = "live"
    THEN MaxLog - 2 * (Len(calls) + 1) - Elems(raw)
    ELSE -1

\* `flat` cut into consecutive segments of the given sizes
RECURSIVE Split(_, _)
Split(flat, sizes) ==
  IF sizes = <<>> THEN <<>>
  ELSE << SubSeq(flat, 1, Head(sizes)) >>
         \o Split(SubSeq(flat, Head(sizes) + 1, Len(flat)), Tail(sizes))

\* the segment lists the caller can pass: at most MaxSegs segments (any of them
\* empty) holding at most n values together
SegmentLists(n) ==
  { Split(flat, sizes) :
      << flat, sizes >> \in
        { fs \in SeqsUpTo(Values, n) \X SeqsUpTo(0..n, MaxSegs) :
            SumSeq(fs[2]) = Len(fs[1]) } }

InitBuilder ==
  /\ raw = NoState
  /\ builderStatus = "none"
  /\ calls = <<>>
  /\ buildResult = "none"
  /\ operation = NoOperation
  /\ opAlive = FALSE
  /\ opsBuilt = 0
  /\ callerRegions = Regions
  /\ released = [r \in Regions |-> 0]
  /\ callerBlocks = Blocks
  /\ releasedBlocks = [b \in Blocks |-> 0]

BuilderOnly == UNCHANGED << onceVars, parseVars, optionsVars, transformVars, printVars >>

NextBuilder ==
  \/ \E name \in Names, location \in Locations :
       new(name, location) /\ BuilderOnly
  \/ \E results \in SeqsUpTo(Types, Room) :
       add_results(results) /\ BuilderOnly
  \/ \E operands \in SeqsUpTo(Values, Room) :
       add_operands(operands) /\ BuilderOnly
  \/ \E segments \in SegmentLists(Room) :
       add_operands_with_segment_sizes(segments) /\ BuilderOnly
  \/ \E regions \in DistinctSeqsUpTo(callerRegions, Room) :
       add_regions(regions) /\ BuilderOnly
  \/ \E regions \in DistinctSeqsUpTo(callerRegions, Room) :
       add_regions_vec(regions) /\ BuilderOnly
  \/ \E successors \in SeqsUpTo(Blocks, Room) :
       add_successors(successors) /\ BuilderOnly
  \/ \E attributes \in SeqsUpTo(NamedAttributes, Room) :
       add_attributes(attributes) /\ BuilderOnly
  \/ enable_result_type_inference /\ BuilderOnly
  \/ \E ok \in BOOLEAN, inferred \in SeqsUpTo(Types, 1) :
       build(ok, inferred) /\ BuilderOnly

\* the calls that move regions, build, and the ends of scope of the caller's
\* regions, of the builder and of the built Operation
NextOwnership ==
  \/ \E name \in Names, location \in Locations :
       new(name, location) /\ BuilderOnly
  \/ \E regions \in DistinctSeqsUpTo(callerRegions, Room) :
       add_regions(regions) /\ BuilderOnly
  \/ \E regions \in DistinctSeqsUpTo(callerRegions, Room) :
       add_regions_vec(regions) /\ BuilderOnly
  \/ enable_result_type_inference /\ BuilderOnly
  \/ \E ok \in BOOLEAN, inferred \in SeqsUpTo(Types, 1) :
       build(ok, inferred) /\ BuilderOnly
  \/ \E successors \in SeqsUpTo(callerBlocks, Room) :
       add_successors(successors) /\ BuilderOnly
  \/ \E b \in Blocks : DropBlock(b) /\ BuilderOnly
  \/ DropBuilder /\ BuilderOnly
  \/ \E r \in Regions : DropRegion(r) /\ BuilderOnly
  \/ DropOperation /\ BuilderOnly

(***************************************************************************)
(* register_all_passes: ONCE.call_once(|| mlirRegisterAllPasses())         *)
(***************************************************************************)
Threads == {"t1", "t2", "t3"}

\* calls of register_all_passes by one thread
MaxRegCalls == 2

\* faulty variant: the gate admits every caller that finds the registration unfinished
AdmitsUnlessComplete(state) == state # "COMPLETE"

\* the caller that finds ONCE incomplete takes it and runs the closure
Admits(state) == state = "INCOMPLETE"

\* faulty variant: a caller that finds the closure running does not wait for it
ProceedsAlways(state) == TRUE

\* a caller that found the closure running proceeds once ONCE is complete
Proceeds(state) == state = "COMPLETE"

\* register_all_passes() is entered
register_all_passes(t) ==
  /\ pc[t] = "idle"
  /\ callsMade[t] < MaxRegCalls
  /\ callsMade' = [callsMade EXCEPT ![t] = @ + 1]
  /\ pc' = [pc EXCEPT ![t] = "call_once"]
  /\ UNCHANGED << onceState, regStarted, regDone >>

\* ONCE.call_once: return when complete, run the closure when admitted,
\* otherwise wait for the thread that runs it
call_once(t) ==
  /\ pc[t] = "call_once"
  /\ IF onceState = "COMPLETE"
       THEN /\ pc' = [pc EXCEPT ![t] = "idle"]
            /\ UNCHANGED onceState
       ELSE IF Admits(onceState)
         THEN /\ onceState' = "RUNNING"
              /\ pc' = [pc EXCEPT ![t] = "closure"]
         ELSE /\ pc' = [pc EXCEPT ![t] = "waiting"]
              /\ UNCHANGED onceState
  /\ UNCHANGED << callsMade, regStarted, regDone >>

\* the closure calls mlirRegisterAllPasses()
mlirRegisterAllPasses(t) ==
  /\ pc[t] = "closure"
  /\ regStarted' = regStarted + 1
  /\ pc' = [pc EXCEPT ![t] = "registering"]
  /\ UNCHANGED << onceState, callsMade, regDone >>

\* mlirRegisterAllPasses() returns
Registered(t) ==
  /\ pc[t] = "registering"
  /\ regDone' = regDone + 1
  /\ pc' = [pc EXCEPT ![t] = "completing"]
  /\ UNCHANGED << onceState, callsMade, regStarted >>

\* call_once marks ONCE complete and returns
Complete(t) ==
  /\ pc[t] = "completing"
  /\ onceState' = "COMPLETE"
  /\ pc' = [pc EXCEPT ![t] = "idle"]
  /\ UNCHANGED << callsMade, regStarted, regDone >>

\* a waiting caller is woken and returns
Wake(t) ==
  /\ pc[t] = "waiting"
  /\ Proceeds(onceState)
  /\ pc' = [pc EXCEPT ![t] = "idle"]
  /\ UNCHANGED << onceState, callsMade, regStarted, regDone >>

InitOnce ==
  /\ onceState = "INCOMPLETE"
  /\ pc = [t \in Threads |-> "idle"]
  /\ callsMade = [t \in Threads |-> 0]
  /\ regStarted = 0
  /\ regDone = 0

OnceOnly ==
  UNCHANGED << builderVars, blockVars, parseVars, optionsVars, transformVars, printVars >>

\* the steps of a call that is under way
Progress(t) ==
  \/ call_once(t) /\ OnceOnly
  \/ mlirRegisterAllPasses(t) /\ OnceOnly
  \/ Registered(t) /\ OnceOnly
  \/ Complete(t) /\ OnceOnly
  \/ Wake(t) /\ OnceOnly

NextOnce ==
  \/ \E t \in Threads : register_all_passes(t) /\ OnceOnly
  \/ \E t \in Threads : call_once(t) /\ OnceOnly
  \/ \E t \in Threads : mlirRegisterAllPasses(t) /\ OnceOnly
  \/ \E t \in Threads : Registered(t) /\ OnceOnly
  \/ \E t \in Threads : Complete(t) /\ OnceOnly
  \/ \E t \in Threads : Wake(t) /\ OnceOnly

(***************************************************************************)
(* parse_pass_pipeline and its callback handle_parse_error.  Text is a     *)
(* sequence of bytes; a String holds valid UTF-8.                          *)
(***************************************************************************)
\* chunks the callback can receive in one call
MaxChunks == 3

\* "", "a", "bc", "é", and three byte sequences that are not UTF-8
Chunks == { <<>>, << 97 >>, << 98, 99 >>, << 195, 169 >>,
            << 195 >>, << 255 >>, << 97, 169 >> }

\* "failed to parse error message in UTF-8"
FallbackMessage ==
  << 102, 97, 105, 108, 101, 100, 32, 116, 111, 32, 112, 97, 114, 115, 101, 32,
     101, 114, 114, 111, 114, 32, 109, 101, 115, 115, 97, 103, 101, 32, 105, 110,
     32, 85, 84, 70, 45, 56 >>

None == [some |-> FALSE]
Some(v) == [some |-> TRUE, value |-> v]

Continuation(byte) == byte \in 128..191

\* whether a byte sequence is well-formed UTF-8
RECURSIVE Utf8Valid(_)
Utf8Valid(b) ==
  IF b = <<>> THEN TRUE
  ELSE LET h == b[1] IN
    IF h < 128 THEN Utf8Valid(Tail(b))
    ELSE IF h \in 194..223 THEN
      /\ Len(b) >= 2
      /\ Continuation(b[2])
      /\ Utf8Valid(SubSeq(b, 3, Len(b)))
    ELSE IF h \in 224..239 THEN
      /\ Len(b) >= 3
      /\ b[2] \in (IF h = 224 THEN 160..191 ELSE IF h = 237 THEN 128..159 ELSE 128..191)
      /\ Continuation(b[3])
      /\ Utf8Valid(SubSeq(b, 4, Len(b)))
    ELSE IF h \in 240..244 THEN
      /\ Len(b) >= 4
      /\ b[2] \in (IF h = 240 THEN 144..191 ELSE IF h = 244 THEN 128..143 ELSE 128..191)
      /\ Continuation(b[3])
      /\ Continuation(b[4])
      /\ Utf8Valid(SubSeq(b, 5, Len(b)))
    ELSE FALSE

\* StringRef::as_str: Ok(text) or Err(Utf8Error)
as_str(chunk) ==
  IF Utf8Valid(chunk) THEN [ok |-> TRUE, value |-> chunk] ELSE [ok |-> FALSE]

\* message.extend(result): a Result iterates over its Ok value, if any
extend(message, result) ==
  IF result.ok THEN message \o result.value ELSE message

\* result.map(String::from).ok()
ok(result) == IF result.ok THEN Some(result.value) ELSE None

\* faulty variant: every chunk starts a new message
HandleParseErrorRestart(data, chunk) == ok(as_str(chunk))

\* the accumulator after handle_parse_error received `chunk`
HandleParseError(data, chunk) ==
  IF data.some
    THEN Some(extend(data.value, as_str(chunk)))
    ELSE ok(as_str(chunk))

\* faulty variant: error_message.unwrap_or_default()
UnwrapOrDefault(option) == IF option.some THEN option.value ELSE <<>>

\* error_message.unwrap_or_else(|| "failed to parse error message in UTF-8".into())
UnwrapOrElse(option) == IF option.some THEN option.value ELSE FallbackMessage

\* the value parse_pass_pipeline returns
ParseResult(success, message) ==
  IF success
    THEN [kind |-> "Ok"]
    ELSE [kind |-> "Err", error |-> "ParsePassPipeline",
          message |-> UnwrapOrElse(message)]

\* faulty variant: the accumulator starts as an empty text
parse_pass_pipeline_with_text ==
  /\ parsePc \in {"idle", "returned"}
  /\ parsePc' = "parsing"
  /\ error_message' = Some(<<>>)
  /\ delivered' = <<>>
  /\ parseReturn' = [kind |-> "none"]
  /\ UNCHANGED parseSuccess

\* parse_pass_pipeline is entered and calls mlirParsePassPipeline
parse_pass_pipeline ==
  /\ parsePc \in {"idle", "returned"}
  /\ parsePc' = "parsing"
  /\ error_message' = None
  /\ delivered' = <<>>
  /\ parseReturn' = [kind |-> "none"]
  /\ UNCHANGED parseSuccess

\* the parser calls handle_parse_error with a chunk of diagnostic text
handle_parse_error(chunk) ==
  /\ parsePc = "parsing"
  /\ Len(delivered) < MaxChunks
  /\ error_message' = HandleParseError(error_message, chunk)
  /\ delivered' = Append(delivered, chunk)
  /\ UNCHANGED << parsePc, parseSuccess, parseReturn >>

\* mlirParsePassPipeline returns and parse_pass_pipeline returns its result;
\* the local error_message is gone
parse_pass_pipeline_return(success) ==
  /\ parsePc = "parsing"
  /\ parsePc' = "returned"
  /\ parseSuccess' = success
  /\ parseReturn' = ParseResult(success, error_message)
  /\ error_message' = None
  /\ UNCHANGED delivered

InitParse ==
  /\ parsePc = "idle"
  /\ error_message = None
  /\ delivered = <<>>
  /\ parseSuccess = TRUE
  /\ parseReturn = [kind |-> "none"]

ParseOnly ==
  UNCHANGED << builderVars, blockVars, onceVars, optionsVars, transformVars, printVars >>

NextParse ==
  \/ parse_pass_pipeline /\ ParseOnly
  \/ \E chunk \in Chunks : handle_parse_error(chunk) /\ ParseOnly
  \/ \E success \in BOOLEAN : parse_pass_pipeline_return(success) /\ ParseOnly

(***************************************************************************)
(* print_callback and print_string_callback                                *)
(***************************************************************************)
\* the chunks one print may deliver
MaxPrintChunks == 3

PrintCallbacks == {"print_callback", "print_string_callback"}

\* write!(formatter, "{}", text): the sink takes the text or reports fmt::Error
Write(writer, text, accepted) ==
  IF accepted THEN [writer |-> writer \o text, result |-> "Ok"]
  ELSE [writer |-> writer, result |-> "Err"]

\* writer.push_str(text); Ok(())
PushStr(writer, text) == [writer |-> writer \o text, result |-> "Ok"]

\* the closure of print_callback: as_str().map_err(|_| fmt::Error)? and write!
PrintClosure(writer, string, accepted) ==
  IF as_str(string).ok
    THEN Write(writer, as_str(string).value, accepted)
    ELSE [writer |-> writer, result |-> "Err"]

\* the closure of print_string_callback: as_str()? and push_str
PrintStringClosure(writer, string) ==
  IF as_str(string).ok
    THEN PushStr(writer, as_str(string).value)
    ELSE [writer |-> writer, result |-> "Err"]

\* faulty variant: no return when the result is an error already
PrintStringCallbackRetrying(writer, result, string) ==
  PrintStringClosure(writer, string)

\* print_callback: if result.is_err() { return; } *result = (closure)()
PrintCallback(writer, result, string, accepted) ==
  IF result = "Err" THEN [writer |-> writer, result |-> result]
  ELSE PrintClosure(writer, string, accepted)

\* print_string_callback: if result.is_err() { return; } *result = (closure)()
PrintStringCallback(writer, result, string) ==
  IF result = "Err" THEN [writer |-> writer, result |-> result]
  ELSE PrintStringClosure(writer, string)

\* a print begins: `data` holds no text of this print yet, and Ok(())
print_begin(callback) ==
  /\ printPc' = "printing"
  /\ printKind' = callback
  /\ printWriter' = <<>>
  /\ printResult' = "Ok"
  /\ printChunks' = <<>>

\* the engine calls print_callback with a chunk
print_callback(string, accepted) ==
  /\ printPc = "printing"
  /\ printKind = "print_callback"
  /\ Len(printChunks) < MaxPrintChunks
  /\ LET data == PrintCallback(printWriter, printResult, string, accepted)
     IN /\ printWriter' = data.writer
        /\ printResult' = data.result
  /\ printChunks' = Append(printChunks, [chunk |-> string, accepted |-> accepted])
  /\ UNCHANGED << printPc, printKind >>

\* the engine calls print_string_callback with a chunk; a String takes every write
print_string_callback(string) ==
  /\ printPc = "printing"
  /\ printKind = "print_string_callback"
  /\ Len(printChunks) < MaxPrintChunks
  /\ LET data == PrintStringCallback(printWriter, printResult, string)
     IN /\ printWriter' = data.writer
        /\ printResult' = data.result
  /\ printChunks' = Append(printChunks, [chunk |-> string, accepted |-> TRUE])
  /\ UNCHANGED << printPc, printKind >>

InitPrint ==
  /\ printPc = "idle"
  /\ printKind = "print_callback"
  /\ printWriter = <<>>
  /\ printResult = "Ok"
  /\ printChunks = <<>>

PrintOnly ==
  UNCHANGED << builderVars, blockVars, onceVars, parseVars, optionsVars, transformVars >>

NextPrint ==
  \/ \E callback \in PrintCallbacks : print_begin(callback) /\ PrintOnly
  \/ \E string \in Chunks, accepted \in BOOLEAN :
       print_callback(string, accepted) /\ PrintOnly
  \/ \E string \in Chunks : print_string_callback(string) /\ PrintOnly

(***************************************************************************)
(* TransformOptions                                                        *)
(***************************************************************************)
Handles == {"o1", "o2"}

Setters == {"enable_expensive_checks", "enforce_single_top_level_transform_op"}

NoCall == [op |-> "none"]

\* mlirTransformOptionsCreate(): the defaults are the engine's
mlirTransformOptionsCreate(expensive, single) ==
  [ status |-> "live", expensive_checks |-> expensive,
    enforce_single_top_level |-> single, destroyed |-> 0 ]

\* faulty variant: one flag word for both options
EnableBothChecks(record, enable) ==
  [record EXCEPT !.expensive_checks = enable, !.enforce_single_top_level = enable]

mlirTransformOptionsEnableExpensiveChecks(record, enable) ==
  [record EXCEPT !.expensive_checks = enable]

mlirTransformOptionsGetExpensiveChecksEnabled(record) == record.expensive_checks

mlirTransformOptionsEnforceSingleTopLevelTransformOp(record, enable) ==
  [record EXCEPT !.enforce_single_top_level = enable]

mlirTransformOptionsGetEnforceSingleTopLevelTransformOp(record) ==
  record.enforce_single_top_level

mlirTransformOptionsDestroy(record) ==
  [record EXCEPT !.status = "released", !.destroyed = @ + 1]

\* faulty variant: a value can be used after it left scope
BorrowableOnceCreated(self) == options[self].status # "none"

\* a method can be called on a value that exists
Borrowable(self) == options[self].status = "live"

Called(call) ==
  /\ optCall' = call
  /\ optPrev' = optCall

TransformOptions_new(self) ==
  /\ options[self].status = "none"
  /\ \E expensive, single \in BOOLEAN :
       options' = [options EXCEPT ![self] = mlirTransformOptionsCreate(expensive, single)]
  /\ Called([op |-> "new", self |-> self])

enable_expensive_checks(self, enable) ==
  /\ Borrowable(self)
  /\ options' = [options EXCEPT
       ![self] = mlirTransformOptionsEnableExpensiveChecks(@, enable)]
  /\ Called([op |-> "enable_expensive_checks", self |-> self, arg |-> enable,
             ret |-> self])

expensive_checks_enabled(self) ==
  /\ Borrowable(self)
  /\ Called([op |-> "expensive_checks_enabled", self |-> self,
             ret |-> mlirTransformOptionsGetExpensiveChecksEnabled(options[self])])
  /\ UNCHANGED options

enforce_single_top_level_transform_op(self, enable) ==
  /\ Borrowable(self)
  /\ options' = [options EXCEPT
       ![self] = mlirTransformOptionsEnforceSingleTopLevelTransformOp(@, enable)]
  /\ Called([op |-> "enforce_single_top_level_transform_op", self |-> self,
             arg |-> enable, ret |-> self])

single_top_level_transform_op_enforced(self) ==
  /\ Borrowable(self)
  /\ Called([op |-> "single_top_level_transform_op_enforced", self |-> self,
             ret |-> mlirTransformOptionsGetEnforceSingleTopLevelTransformOp(options[self])])
  /\ UNCHANGED options

\* the value leaves scope: Drop for TransformOptions
drop(self) ==
  /\ Borrowable(self)
  /\ options' = [options EXCEPT ![self] = mlirTransformOptionsDestroy(@)]
  /\ Called([op |-> "drop", self |-> self])

InitOptions ==
  /\ options = [h \in Handles |->
       [ status |-> "none", expensive_checks |-> FALSE,
         enforce_single_top_level |-> FALSE, destroyed |-> 0 ]]
  /\ optCall = NoCall
  /\ optPrev = NoCall

OptionsOnly ==
  UNCHANGED << builderVars, blockVars, onceVars, parseVars, transformVars, printVars >>

(***************************************************************************)
(* apply_named_sequence and merge_symbols_into_from_clone                  *)
(***************************************************************************)
\* the symbols a module may hold
MaxSymbols == 2

Modules == {"m1", "m2"}

SymbolNames == {"f", "g"}

Visibilities == {"public", "private"}

\* a top-level symbol; `copy` numbers the renamings that keep its name unique
Symbol(name, copy, visibility) ==
  [name |-> name, copy |-> copy, visibility |-> visibility]

Defines(table, name, copy) == \E s \in table : s.name = name /\ s.copy = copy

Defined(table, s) == CHOOSE t \in table : t.name = s.name /\ t.copy = s.copy

\* a conflict of two public symbols is one renaming cannot resolve
Unresolvable(target, other) ==
  \E s \in other :
    /\ Defines(target, s.name, s.copy)
    /\ s.visibility = "public"
    /\ Defined(target, s).visibility = "public"

\* the first copy number of `name` that neither table uses
FreshCopy(target, other, name) ==
  CHOOSE c \in 0..(Cardinality(target) + Cardinality(other)) :
    /\ ~Defines(target, name, c) /\ ~Defines(other, name, c)
    /\ \A d \in 0..(c - 1) : Defines(target, name, d) \/ Defines(other, name, d)

\* a clone of each symbol of `rest` put into `target`; on a conflict the
\* private symbol of the two is renamed
RECURSIVE MergeClones(_, _)
MergeClones(target, rest) ==
  IF rest = {} THEN target
  ELSE LET s == CHOOSE x \in rest : TRUE
           fresh == FreshCopy(target, rest, s.name)
       IN IF ~Defines(target, s.name, s.copy)
            THEN MergeClones(target \cup {s}, rest \ {s})
          ELSE IF s.visibility = "private"
            THEN MergeClones(target \cup {Symbol(s.name, fresh, s.visibility)},
                             rest \ {s})
          ELSE MergeClones((target \ {Defined(target, s)})
                             \cup {Symbol(s.name, fresh, "private"), s},
                           rest \ {s})

\* mlirMergeSymbolsIntoFromClone: the LogicalResult and the target afterwards
mlirMergeSymbolsIntoFromClone(target, other) ==
  IF Unresolvable(target, other)
    THEN [result |-> FALSE, target |-> target]
    ELSE [result |-> TRUE, target |-> MergeClones(target, other)]

\* faulty variant: a failure of the engine is reported as success
ApplyReturnSwallowed(result) == [kind |-> "Ok"]

\* apply_named_sequence: if result.is_success() { Ok(()) } else { Err(..) }
ApplyReturn(result) ==
  IF result THEN [kind |-> "Ok"] ELSE [kind |-> "Err", error |-> "OperationBuild"]

\* merge_symbols_into_from_clone: if result.is_success() { Ok(()) } else { Err(..) }
MergeReturn(result) ==
  IF result THEN [kind |-> "Ok"] ELSE [kind |-> "Err", error |-> "OperationBuild"]

\* the caller defines a top-level symbol in a module
add_symbol(module, name, visibility) ==
  /\ Cardinality(modules[module]) < MaxSymbols
  /\ \A s \in modules[module] : s.name # name
  /\ modules' = [modules EXCEPT ![module] = @ \cup {Symbol(name, 0, visibility)}]
  /\ transformCall' = NoCall
  /\ UNCHANGED mutated

\* mlirTransformApplyNamedSequence runs the sequence on the payload; what it
\* reports and whether it changed the payload are the engine's
apply_named_sequence(payload, transform_root, transform_module, transform_options, result, changed) ==
  /\ Borrowable(transform_options)
  /\ mutated' = IF changed THEN mutated \cup {payload} ELSE mutated
  /\ transformCall' =
       [ op |-> "apply_named_sequence", payload |-> payload, result |-> result,
         ret |-> ApplyReturn(result) ]
  /\ Called([op |-> "apply_named_sequence", self |-> transform_options])
  /\ UNCHANGED << modules, options >>

\* faulty variant: the two operations are handed to the engine in the other order
merge_symbols_swapped(target, other) ==
  /\ Cardinality(modules[target]) + Cardinality(modules[other]) <= MaxSymbols
  /\ LET merged == mlirMergeSymbolsIntoFromClone(modules[other], modules[target])
     IN /\ modules' = [modules EXCEPT ![other] = merged.target]
        /\ transformCall' =
             [ op |-> "merge_symbols_into_from_clone", target |-> target,
               other |-> other, result |-> merged.result,
               ret |-> MergeReturn(merged.result), before |-> modules ]
  /\ UNCHANGED mutated

merge_symbols_into_from_clone(target, other) ==
  /\ Cardinality(modules[target]) + Cardinality(modules[other]) <= MaxSymbols
  /\ LET merged == mlirMergeSymbolsIntoFromClone(modules[target], modules[other])
     IN /\ modules' = [modules EXCEPT ![target] = merged.target]
        /\ transformCall' =
             [ op |-> "merge_symbols_into_from_clone", target |-> target,
               other |-> other, result |-> merged.result,
               ret |-> MergeReturn(merged.result), before |-> modules ]
  /\ UNCHANGED mutated

InitTransform ==
  /\ modules = [m \in Modules |-> {}]
  /\ mutated = {}
  /\ transformCall = NoCall

TransformOnly == UNCHANGED << builderVars, blockVars, onceVars, parseVars, printVars >>

\* the module that holds the transform script, and is its root
TransformModule == "m2"

\* the methods of TransformOptions, the end of its scope, and the function that
\* borrows it
NextOptions ==
  \/ \E self \in Handles : TransformOptions_new(self) /\ OptionsOnly
  \/ \E self \in Handles, enable \in BOOLEAN :
       enable_expensive_checks(self, enable) /\ OptionsOnly
  \/ \E self \in Handles : expensive_checks_enabled(self) /\ OptionsOnly
  \/ \E self \in Handles, enable \in BOOLEAN :
       enforce_single_top_level_transform_op(self, enable) /\ OptionsOnly
  \/ \E self \in Handles : single_top_level_transform_op_enforced(self) /\ OptionsOnly
  \/ \E self \in Handles : drop(self) /\ OptionsOnly
  \/ \E payload \in Modules, transform_options \in Handles,
        result, changed \in BOOLEAN :
       /\ apply_named_sequence(payload, TransformModule, TransformModule,
                               transform_options, result, changed)
       /\ TransformOnly

\* the TransformOptions value the calls of apply_named_sequence borrow
TransformHandles == {"o1"}

NextTransform ==
  \/ \E self \in TransformHandles :
       TransformOptions_new(self) /\ TransformOnly /\ UNCHANGED transformVars
  \/ \E self \in TransformHandles :
       drop(self) /\ TransformOnly /\ UNCHANGED transformVars
  \/ \E module \in Modules, name \in SymbolNames, visibility \in Visibilities :
       add_symbol(module, name, visibility) /\ TransformOnly /\ UNCHANGED optionsVars
  \/ \E payload \in Modules, transform_options \in TransformHandles,
        result, changed \in BOOLEAN :
       /\ apply_named_sequence(payload, TransformModule, TransformModule,
                               transform_options, result, changed)
       /\ TransformOnly
  \/ \E target, other \in Modules :
       merge_symbols_into_from_clone(target, other) /\ TransformOnly /\ UNCHANGED optionsVars

(***************************************************************************)
(* Specifications.                                                         *)
(***************************************************************************)
Init ==
  InitBuilder /\ InitOnce /\ InitParse /\ InitOptions /\ InitTransform /\ InitPrint

SpecBuilder == Init /\ [][NextBuilder]_vars

SpecOwnership == Init /\ [][NextOwnership]_vars

\* a thread inside register_all_passes keeps running, and
\* mlirRegisterAllPasses returns
FairSpecOnce ==
  Init /\ [][NextOnce]_vars /\ \A t \in Threads : WF_vars(Progress(t))

SpecParse == Init /\ [][NextParse]_vars

SpecOptions == Init /\ [][NextOptions]_vars

SpecTransform == Init /\ [][NextTransform]_vars

SpecPrint == Init /\ [][NextPrint]_vars

(***************************************************************************)
(* Properties of the operation builder.                                    *)
(***************************************************************************)
\* the concatenation of a list of lists, taken from the right
RECURSIVE Concat(_)
Concat(ss) ==
  IF Len(ss) = 0 THEN <<>>
  ELSE Concat(SubSeq(ss, 1, Len(ss) - 1)) \o ss[Len(ss)]

\* the number of positions at which r occurs in s
Occurrences(s, r) == Cardinality({i \in DOMAIN s : s[i] = r})

\* the bindings of an operation with the given name
Bindings(op, name) == {i \in DOMAIN op.attributes : op.attributes[i].name = name}

SegmentCall(i) == calls[i].op = "add_operands_with_segment_sizes"

\* C1: when the only call on a fresh builder is add_operands_with_segment_sizes
\* with segments of sizes [s0, ..., sn], the built operation has s0 + ... + sn
\* operands and its one operandSegmentSizes attribute decodes to [s0, ..., sn].
C1_SegmentSizes ==
  (buildResult = "ok" /\ Len(calls) = 1 /\ SegmentCall(1)) =>
    LET segments == calls[1].arg
        sizes == [i \in 1..Len(segments) |-> Len(segments[i])]
    IN /\ Len(operation.operands) = SumSeq(sizes)
       /\ Cardinality(Bindings(operation, "operandSegmentSizes")) = 1
       /\ \A i \in Bindings(operation, "operandSegmentSizes") :
            DenseI32ArrayElements(operation.attributes[i].attribute) = sizes

C1_Witness ==
  /\ buildResult = "ok"
  /\ Len(calls) = 1
  /\ SegmentCall(1)
  /\ calls[1].arg = << <<>>, << "a" >>, << "b", "a" >> >>

\* the operands call i contributes
OperandsOfCall(i) ==
  IF calls[i].op = "add_operands" THEN calls[i].arg
  ELSE IF SegmentCall(i) THEN Concat(calls[i].arg)
  ELSE <<>>

\* the result types call i contributes
ResultsOfCall(i) == IF calls[i].op = "add_results" THEN calls[i].arg ELSE <<>>

OperandCalls ==
  \A i \in DOMAIN calls :
    calls[i].op \in {"add_operands", "add_operands_with_segment_sizes", "add_results"}

\* C2: after any sequence of add_operands, add_operands_with_segment_sizes and
\* add_results calls, the pending operands are the concatenation of the operands
\* of every call in call order and the pending result types the concatenation
\* of every add_results argument in call order.
C2_Accumulate ==
  (builderStatus # "none" /\ OperandCalls) =>
    /\ raw.operands = Concat([i \in DOMAIN calls |-> OperandsOfCall(i)])
    /\ raw.results = Concat([i \in DOMAIN calls |-> ResultsOfCall(i)])

C2_Witness ==
  /\ builderStatus = "live"
  /\ Len(calls) = 2
  /\ calls[1] = [op |-> "add_operands", arg |-> << "a" >>]
  /\ calls[2] = [op |-> "add_operands", arg |-> << "b" >>]
  /\ raw.operands = << "a", "b" >>

\* C5: build consumes the accumulator whether it returns an Operation or an
\* error; a consumed accumulator is never changed or built again, and an
\* accumulator yields at most one Operation.
C5_SingleUse ==
  /\ [](buildResult # "none" => builderStatus = "consumed")
  /\ [](opsBuilt <= 1)
  /\ [][builderStatus = "consumed" =>
          /\ builderStatus' = "consumed"
          /\ raw' = raw
          /\ calls' = calls
          /\ buildResult' = buildResult
          /\ opsBuilt' = opsBuilt]_vars

C5_Witness ==
  /\ buildResult = "err"
  /\ builderStatus = "consumed"
  /\ Len(calls) = 2

\* the owners of region r: the caller's handle, the pending operation of a live
\* builder, the built operation
Owners(r) ==
  (IF r \in callerRegions THEN 1 ELSE 0)
    + (IF builderStatus = "live" THEN Occurrences(raw.regions, r) ELSE 0)
    + (IF opAlive THEN Occurrences(operation.regions, r) ELSE 0)

\* a step that is a call of add_regions or add_regions_vec
RegionsCall ==
  /\ Len(calls') = Len(calls) + 1
  /\ calls'[Len(calls')].op \in {"add_regions", "add_regions_vec"}

\* C6: add_regions and add_regions_vec leave every passed region owned by the
\* pending operation only and release none; a region has at most one owner, is
\* released at most once, and has no owner once released.
C6_RegionOwnership ==
  /\ [](\A r \in Regions :
          /\ Owners(r) <= 1
          /\ released[r] <= 1
          /\ released[r] = 1 => Owners(r) = 0)
  /\ [][RegionsCall =>
          /\ released' = released
          /\ \A r \in Range(calls'[Len(calls')].arg) :
               /\ r \in callerRegions
               /\ r \notin callerRegions'
               /\ Occurrences(raw'.regions, r) = 1]_vars

C6_Witness ==
  /\ buildResult = "err"
  /\ Len(calls) = 2
  /\ calls[1] = [op |-> "add_regions", arg |-> << "r2", "r1" >>]
  /\ released = [r \in Regions |-> 1]

(***************************************************************************)
(* Properties of register_all_passes.                                      *)
(***************************************************************************)
\* the calls of thread t that have returned
ReturnedCalls(t) == IF pc[t] = "idle" THEN callsMade[t] ELSE callsMade[t] - 1

\* C3: in every interleaving of the threads' calls the registration is
\* executed at most once, and exactly once as soon as some call has returned.
C3_ExactlyOnce ==
  /\ regStarted <= 1
  /\ (\E t \in Threads : ReturnedCalls(t) > 0) => (regStarted = 1 /\ regDone = 1)

C3_Witness ==
  /\ \A t \in Threads : ReturnedCalls(t) >= 2
  /\ regStarted = 1

\* C4: a call returns only after the registration has completed (a caller that
\* finds it running waits), and every call that is made returns.
C4_ReturnAfterCompletion ==
  /\ [](\A t \in Threads :
          ReturnedCalls(t) > 0 => (regDone >= 1 /\ onceState = "COMPLETE"))
  /\ \A t \in Threads : (pc[t] # "idle") ~> (pc[t] = "idle")

C4_Witness ==
  \E t, u \in Threads :
    /\ pc[t] = "waiting"
    /\ ReturnedCalls(u) = 1
    /\ regDone = 1

(***************************************************************************)
(* Properties of parse_pass_pipeline.                                      *)
(***************************************************************************)
\* the chunks delivered so far that decode as text, in delivery order
Decoded == SelectSeq(delivered, Utf8Valid)

Failed == parsePc = "returned" /\ ~parseSuccess

\* C7: when the call fails after chunks c1, ..., ck (k >= 1), all of them valid
\* text, the error carries c1 ++ ... ++ ck.
C7_Concatenation ==
  (Failed /\ Len(delivered) >= 1 /\ Decoded = delivered) =>
    /\ parseReturn.kind = "Err"
    /\ parseReturn.message = Concat(delivered)

C7_Witness ==
  /\ Failed
  /\ delivered = << << 97 >>, << 195, 169 >>, << 98, 99 >> >>
  /\ parseReturn.message = << 97, 195, 169, 98, 99 >>

\* C8: when the call fails and some delivered chunk is not valid text, the
\* error carries the fallback message.
C8_FallbackOnMalformed ==
  (Failed /\ Decoded # delivered) =>
    /\ parseReturn.kind = "Err"
    /\ parseReturn.message = FallbackMessage

\* C9 as stated: Ok exactly when the parser succeeds, with no text retained;
\* on failure an error whose text is not empty.
C9_NonEmptyText ==
  parsePc = "returned" =>
    /\ parseReturn.kind = "Ok" <=> parseSuccess
    /\ parseReturn.kind = "Ok" => (error_message = None /\ DOMAIN parseReturn = {"kind"})
    /\ parseReturn.kind = "Err" => Len(parseReturn.message) > 0

\* C9 as amended: Ok exactly when the parser succeeds, with no text retained;
\* on failure an error whose text is empty only when some chunk decoded and
\* every chunk that decoded is empty.
C9_TextOfDecodedChunks ==
  parsePc = "returned" =>
    /\ parseReturn.kind \in {"Ok", "Err"}
    /\ parseReturn.kind = "Ok" <=> parseSuccess
    /\ parseReturn.kind = "Ok" => (error_message = None /\ DOMAIN parseReturn = {"kind"})
    /\ parseReturn.kind = "Err" =>
         (Len(parseReturn.message) = 0
            <=> (Decoded # <<>> /\ \A i \in DOMAIN Decoded : Decoded[i] = <<>>))

C9_Witness ==
  /\ Failed
  /\ delivered = << << 255 >>, <<>> >>
  /\ parseReturn.message = <<>>

\* C17: while the callback has not been invoked the accumulator is absent, and
\* a call that fails without any invocation returns the ParsePassPipeline
\* error with the fallback message.
C17_ZeroChunks ==
  /\ (parsePc = "parsing" /\ delivered = <<>>) => error_message = None
  /\ (Failed /\ delivered = <<>>) =>
       parseReturn = [ kind |-> "Err", error |-> "ParsePassPipeline",
                       message |-> FallbackMessage ]

C17_Witness ==
  /\ Failed
  /\ delivered = <<>>
  /\ parseReturn.kind = "Err"
  /\ parseReturn.message = FallbackMessage

(***************************************************************************)
(* Properties of TransformOptions.                                         *)
(***************************************************************************)
\* C10: a setter of one flag leaves the value the other flag's getter reads
\* unchanged and returns the record it was called on, and a getter called
\* right after the setter of its flag reads the value just set.
C10_IndependentFlags ==
  /\ [](optCall.op \in Setters => optCall.ret = optCall.self)
  /\ []((/\ optPrev.op = "enable_expensive_checks"
         /\ optCall.op = "expensive_checks_enabled"
         /\ optCall.self = optPrev.self) => optCall.ret = optPrev.arg)
  /\ []((/\ optPrev.op = "enforce_single_top_level_transform_op"
         /\ optCall.op = "single_top_level_transform_op_enforced"
         /\ optCall.self = optPrev.self) => optCall.ret = optPrev.arg)
  /\ [][\A self \in Handles :
          /\ (\E enable \in BOOLEAN : enable_expensive_checks(self, enable)) =>
               /\ mlirTransformOptionsGetEnforceSingleTopLevelTransformOp(options'[self])
                    = mlirTransformOptionsGetEnforceSingleTopLevelTransformOp(options[self])
               /\ mlirTransformOptionsGetExpensiveChecksEnabled(options'[self])
                    = optCall'.arg
          /\ (\E enable \in BOOLEAN :
                enforce_single_top_level_transform_op(self, enable)) =>
               /\ mlirTransformOptionsGetExpensiveChecksEnabled(options'[self])
                    = mlirTransformOptionsGetExpensiveChecksEnabled(options[self])
               /\ mlirTransformOptionsGetEnforceSingleTopLevelTransformOp(options'[self])
                    = optCall'.arg]_vars

C10_Witness ==
  /\ optPrev = [op |-> "enable_expensive_checks", self |-> "o1", arg |-> TRUE,
                ret |-> "o1"]
  /\ optCall = [op |-> "single_top_level_transform_op_enforced", self |-> "o1",
                ret |-> FALSE]

(***************************************************************************)
(* Properties of build.                                                    *)
(***************************************************************************)
\* C11: when result type inference was enabled on a builder whose name has no
\* inference procedure, build returns Error::OperationBuild and makes no
\* Operation, whatever else was accumulated; and an Operation that build
\* returns has result types beyond the accumulated ones only when inference
\* was enabled on a name that has a procedure.
C11_InferenceUnavailable ==
  buildResult # "none" =>
    /\ (raw.enableResultTypeInference /\ ~HasInference(raw.name)) =>
         (buildResult = "err" /\ operation = NoOperation /\ opsBuilt = 0)
    /\ buildResult = "ok" =>
         /\ operation.kind = "operation"
         /\ Len(operation.results) >= Len(raw.results)
         /\ SubSeq(operation.results, 1, Len(raw.results)) = raw.results
         /\ Len(operation.results) > Len(raw.results) =>
              (raw.enableResultTypeInference /\ HasInference(raw.name))

C11_Witness ==
  /\ buildResult = "err"
  /\ raw.name = "foo"
  /\ raw.enableResultTypeInference
  /\ raw.operands = << "a", "b" >>

\* C14: build on a builder just made by new, with a name no dialect
\* registers and a context that permits unregistered names, returns an
\* Operation of that name and location with no results, operands, regions,
\* successors or attributes.
C14_Baseline ==
  (/\ buildResult # "none"
   /\ calls = <<>>
   /\ raw.name = "foo"
   /\ raw.location.context.allow_unregistered_dialects) =>
    /\ buildResult = "ok"
    /\ operation =
         [ kind |-> "operation", name |-> "foo", location |-> raw.location,
           results |-> <<>>, operands |-> <<>>, regions |-> <<>>,
           successors |-> <<>>, attributes |-> <<>> ]

C14_Witness ==
  /\ buildResult = "ok"
  /\ calls = <<>>
  /\ operation.name = "foo"
  /\ operation.location.context.allow_unregistered_dialects
  /\ operation.results = <<>>
  /\ operation.attributes = <<>>

\* the bindings call i contributes
AttributesOfCall(i) ==
  IF calls[i].op = "add_attributes"
    THEN [k \in DOMAIN calls[i].arg |->
            [name |-> calls[i].arg[k][1], attribute |-> calls[i].arg[k][2]]]
  ELSE IF SegmentCall(i)
    THEN << [ name |-> "operandSegmentSizes",
              attribute |-> DenseI32ArrayAttribute(
                [k \in DOMAIN calls[i].arg |-> Len(calls[i].arg[k])]) ] >>
  ELSE <<>>

\* the bindings of all calls, in call order
Accumulated == Concat([i \in DOMAIN calls |-> AttributesOfCall(i)])

\* the names of the bindings call i contributes
NamesOfCall(i) ==
  IF calls[i].op = "add_attributes"
    THEN [k \in DOMAIN calls[i].arg |-> calls[i].arg[k][1]]
  ELSE IF SegmentCall(i) THEN << "operandSegmentSizes" >>
  ELSE <<>>

\* the names of the bindings of all calls, in call order
AccumulatedNames == Concat([i \in DOMAIN calls |-> NamesOfCall(i)])

UniqueNames(attributes) ==
  \A i, j \in DOMAIN attributes :
    attributes[i].name = attributes[j].name => i = j

\* C15 as stated: no two bindings of a built Operation share a name.
C15_UniqueNames == buildResult = "ok" => UniqueNames(operation.attributes)

\* C15 as amended: a built Operation has, for every name, as many bindings of
\* that name as the calls accumulated, so its names are unique exactly when
\* the accumulated names are.
C15_NamesAsAccumulated ==
  buildResult = "ok" =>
    LET names == AccumulatedNames
    IN /\ \A name \in Identifiers :
            Cardinality(Bindings(operation, name)) = Occurrences(names, name)
       /\ UniqueNames(operation.attributes)
            <=> \A name \in Identifiers : Occurrences(names, name) <= 1

\* add_operands_with_segment_sizes and then add_attributes with the reserved
\* name: the Operation has two bindings of that name
C15_Witness ==
  /\ buildResult = "ok"
  /\ Len(calls) = 2
  /\ SegmentCall(1)
  /\ calls[2] = [op |-> "add_attributes",
                 arg |-> << << "operandSegmentSizes", UnitAttribute >> >>]
  /\ Cardinality(Bindings(operation, "operandSegmentSizes")) = 2

\* C16: the pending attribute list is the concatenation, in call order, of the
\* bindings of every add_attributes call and of the one operandSegmentSizes
\* binding of every add_operands_with_segment_sizes call; a binding whose name
\* is already pending is kept beside the earlier one.
C16_AppendOnly ==
  builderStatus # "none" => raw.attributes = Accumulated

\* two add_operands_with_segment_sizes calls: two pending bindings of the
\* reserved name, in call order
C16_Witness ==
  /\ builderStatus = "live"
  /\ Len(calls) = 2
  /\ calls[1] = [op |-> "add_operands_with_segment_sizes", arg |-> << << "a" >> >>]
  /\ calls[2] = [op |-> "add_operands_with_segment_sizes",
                 arg |-> << <<>>, << "b" >> >>]
  /\ Len(raw.attributes) = 2
  /\ DenseI32ArrayElements(raw.attributes[1].attribute) = << 1 >>
  /\ DenseI32ArrayElements(raw.attributes[2].attribute) = << 0, 1 >>
  /\ Cardinality(Bindings(raw, "operandSegmentSizes")) = 2

\* the successors call i contributes
SuccessorsOfCall(i) == IF calls[i].op = "add_successors" THEN calls[i].arg ELSE <<>>

\* a step that is a call of add_successors
SuccessorsCall ==
  /\ Len(calls') = Len(calls) + 1
  /\ calls'[Len(calls')].op = "add_successors"

\* a block that was destroyed and that the pending or the built operation
\* refers to
Dangling(b) ==
  /\ b \notin callerBlocks
  /\ \/ builderStatus = "live" /\ b \in Range(raw.successors)
     \/ opAlive /\ b \in Range(operation.successors)

\* C18: the pending successors are the blocks of every add_successors call in
\* call and argument order; add_successors leaves every block with its owner
\* and alive; a block is destroyed only by its owner letting it go, at most
\* once, and that step leaves the pending and the built operation, and so
\* their references to the block, as they were.
C18_NonOwningSuccessors ==
  /\ [](builderStatus # "none" =>
          raw.successors = Concat([i \in DOMAIN calls |-> SuccessorsOfCall(i)]))
  /\ [](\A b \in Blocks :
          /\ releasedBlocks[b] <= 1
          /\ releasedBlocks[b] = 1 <=> b \notin callerBlocks)
  /\ [][SuccessorsCall =>
          /\ blockVars' = blockVars
          /\ raw'.successors = raw.successors \o calls'[Len(calls')].arg]_vars
  /\ [][blockVars' # blockVars =>
          /\ \E b \in callerBlocks :
               /\ callerBlocks' = callerBlocks \ {b}
               /\ releasedBlocks' = [releasedBlocks EXCEPT ![b] = 1]
          /\ builderVars' = builderVars]_vars

\* the built Operation refers to a block its owner has destroyed
C18_Witness ==
  /\ opAlive
  /\ operation.successors = << "b1", "b2" >>
  /\ Dangling("b1")
  /\ "b2" \in callerBlocks

\* the fields of the accumulator
Fields ==
  { "kind", "name", "location", "results", "operands", "regions", "successors",
    "attributes", "enableResultTypeInference" }

\* the fields a call may change
Changes(op) ==
  CASE op = "add_results" -> {"results"}
    [] op = "add_operands" -> {"operands"}
    [] op = "add_operands_with_segment_sizes" -> {"operands", "attributes"}
    [] op \in {"add_regions", "add_regions_vec"} -> {"regions"}
    [] op = "add_successors" -> {"successors"}
    [] op = "add_attributes" -> {"attributes"}
    [] op = "enable_result_type_inference" -> {"enableResultTypeInference"}

\* C20: a call on the accumulator leaves every field but its own as it was:
\* add_results the result types, add_operands the operands, add_regions and
\* add_regions_vec the regions, add_successors the successors, add_attributes
\* the attributes, enable_result_type_inference the flag;
\* add_operands_with_segment_sizes appends its operands and one attribute and
\* changes nothing else; name and location stay as new set them, and build
\* changes no field.
C20_Frame ==
  /\ [][Len(calls') = Len(calls) + 1 =>
          LET call == calls'[Len(calls')]
          IN /\ \A f \in Fields \ Changes(call.op) : raw'[f] = raw[f]
             /\ call.op = "add_operands_with_segment_sizes" =>
                  /\ raw'.operands = raw.operands \o Concat(call.arg)
                  /\ Len(raw'.attributes) = Len(raw.attributes) + 1
                  /\ SubSeq(raw'.attributes, 1, Len(raw.attributes)) = raw.attributes]_vars
  /\ [][builderStatus # "none" =>
          /\ raw'.name = raw.name
          /\ raw'.location = raw.location
          /\ calls' = calls => raw' = raw]_vars

\* add_operands_with_segment_sizes on an accumulator that holds a result type
C20_Witness ==
  /\ builderStatus = "live"
  /\ calls = << [op |-> "add_results", arg |-> << "i1" >>],
                [op |-> "add_operands_with_segment_sizes",
                 arg |-> << << "a" >> >>] >>
  /\ raw.results = << "i1" >>
  /\ raw.operands = << "a" >>
  /\ Len(raw.attributes) = 1

\* the regions call i contributes
RegionsOfCall(i) ==
  IF calls[i].op \in {"add_regions", "add_regions_vec"} THEN calls[i].arg ELSE <<>>

\* what a call with `regions` does to the accumulator and to the regions, the
\* destructors that run at its end given by `rel`
RegionsEffect(regions, rel) ==
  /\ raw' = [raw EXCEPT !.regions = @ \o regions]
  /\ callerRegions' = callerRegions \ Range(regions)
  /\ released' = rel
  /\ UNCHANGED << builderStatus, buildResult, operation, opAlive, opsBuilt >>

\* C21: add_regions and add_regions_vec are the same but for their name: a
\* step of one, for the same regions from the same state, has the effect of
\* the other on the accumulator, on the caller's handles and on the regions,
\* none of which is released; so the pending regions are the regions of every
\* call of either, in call and argument order.
C21_RegionsVecEquivalent ==
  /\ [](builderStatus # "none" =>
          raw.regions = Concat([i \in DOMAIN calls |-> RegionsOfCall(i)]))
  /\ [][\A regions \in DistinctSeqsUpTo(Regions, Cardinality(Regions)) :
          /\ add_regions(regions) =>
               /\ RegionsEffect(regions, ManuallyDrop(regions, released))
               /\ released' = released
          /\ add_regions_vec(regions) =>
               /\ RegionsEffect(regions, forget(regions, released))
               /\ released' = released]_vars

\* a call of each on one accumulator
C21_Witness ==
  /\ builderStatus = "live"
  /\ calls = << [op |-> "add_regions", arg |-> << "r1" >>],
                [op |-> "add_regions_vec", arg |-> << "r2" >>] >>
  /\ raw.regions = << "r1", "r2" >>
  /\ callerRegions = {}
  /\ \A r \in Regions : released[r] = 0

(***************************************************************************)
(* Properties of the TransformOptions resource.                            *)
(***************************************************************************)
\* the calls that read or write the record of the value they are made on
RecordUses ==
  Setters \cup { "expensive_checks_enabled",
                 "single_top_level_transform_op_enforced",
                 "apply_named_sequence" }

\* C19: the record of a TransformOptions value is created by new, once, and
\* destroyed when the value leaves scope, once; a getter, a setter or
\* apply_named_sequence is only ever called on a record that exists and was
\* not destroyed, and leaves it so.
C19_ScopedResource ==
  /\ [](\A h \in Handles :
          /\ options[h].destroyed <= 1
          /\ options[h].status = "released" <=> options[h].destroyed = 1
          /\ options[h].status \in {"none", "live", "released"})
  /\ [][/\ optCall'.op \in RecordUses =>
            /\ options[optCall'.self].status = "live"
            /\ options'[optCall'.self].status = "live"
            /\ options'[optCall'.self].destroyed = 0
        /\ optCall'.op = "new" =>
            /\ options[optCall'.self].status = "none"
            /\ options'[optCall'.self].status = "live"
        /\ optCall'.op = "drop" =>
            /\ options[optCall'.self].status = "live"
            /\ options'[optCall'.self].status = "released"
        /\ \A h \in Handles :
             options'[h].status # options[h].status =>
               (optCall'.op \in {"new", "drop"} /\ optCall'.self = h)]_vars

\* a value was used by apply_named_sequence and then left scope
C19_Witness ==
  /\ optPrev = [op |-> "apply_named_sequence", self |-> "o1"]
  /\ optCall = [op |-> "drop", self |-> "o1"]
  /\ options["o1"].status = "released"
  /\ options["o1"].destroyed = 1

(***************************************************************************)
(* Properties of apply_named_sequence and merge_symbols_into_from_clone.   *)
(***************************************************************************)
Merged == transformCall.op = "merge_symbols_into_from_clone"

\* C12: merge_symbols_into_from_clone of an empty source into an empty target
\* returns Ok(()) and leaves the target with zero symbols; and a merge leaves
\* the symbols of a source other than the target as they were.
C12_EmptyMerge ==
  Merged =>
    /\ (/\ transformCall.before[transformCall.target] = {}
        /\ transformCall.before[transformCall.other] = {}) =>
         /\ transformCall.ret = [kind |-> "Ok"]
         /\ Cardinality(modules[transformCall.target]) = 0
         /\ modules = transformCall.before
    /\ transformCall.other # transformCall.target =>
         modules[transformCall.other] = transformCall.before[transformCall.other]

C12_Witness ==
  /\ Merged
  /\ transformCall.target = "m1"
  /\ transformCall.other = "m2"
  /\ transformCall.before = [m \in Modules |-> {}]
  /\ transformCall.ret = [kind |-> "Ok"]
  /\ modules["m1"] = {}

\* C13: apply_named_sequence and merge_symbols_into_from_clone return Ok(())
\* exactly when the engine reports success, and on every failure the same
\* Error::OperationBuild, which carries no text.
C13_GenericFailure ==
  transformCall.op \in {"apply_named_sequence", "merge_symbols_into_from_clone"} =>
    /\ transformCall.result => transformCall.ret = [kind |-> "Ok"]
    /\ ~transformCall.result =>
         transformCall.ret = [kind |-> "Err", error |-> "OperationBuild"]

\* a merge of two public symbols of one name has failed, after a call of
\* apply_named_sequence
C13_Witness ==
  /\ Merged
  /\ ~transformCall.result
  /\ transformCall.ret = [kind |-> "Err", error |-> "OperationBuild"]
  /\ transformCall.before["m1"] = {Symbol("f", 0, "public")}
  /\ transformCall.before["m2"] = {Symbol("f", 0, "public")}
  /\ optCall.op = "apply_named_sequence"

(***************************************************************************)
(* Properties of the print callbacks.                                      *)
(***************************************************************************)
\* chunk i does not decode, or the sink does not take it
FailsToPrint(i) ==
  ~Utf8Valid(printChunks[i].chunk) \/ ~printChunks[i].accepted

\* the chunks before the first that fails, all of them if none does
BeforeFailure ==
  LET failing == {i \in DOMAIN printChunks : FailsToPrint(i)}
      first == IF failing = {} THEN Len(printChunks) + 1
               ELSE CHOOSE i \in failing : \A j \in failing : i <= j
  IN [i \in 1..(first - 1) |-> printChunks[i].chunk]

\* C22: while no chunk has failed to decode or to be written, the result is
\* Ok and the text written is the chunks so far, in order; from the first
\* chunk that fails on, the result is an error and the text written is the
\* chunks before that one, whatever chunks follow.
C22_StickyError ==
  printPc = "printing" =>
    /\ printWriter = Concat(BeforeFailure)
    /\ printResult = "Ok" <=> Len(BeforeFailure) = Len(printChunks)
    /\ printResult \in {"Ok", "Err"}

\* print_string_callback is given a chunk that does not decode between two
\* that do
C22_Witness ==
  /\ printKind = "print_string_callback"
  /\ Len(printChunks) = 3
  /\ printChunks[1].chunk = << 97 >>
  /\ printChunks[2].chunk = << 255 >>
  /\ printChunks[3].chunk = << 98, 99 >>
  /\ printWriter = << 97 >>
  /\ printResult = "Err"

====
